---- MODULE Spec2Model ----
(***************************************************************************)
(* Contract analyzer: the analysis-response pipeline of                    *)
(* ContractAnalysisChain.analyze_contract (src/folder1/analysis.py) and    *)
(* the Streamlit session of src/app.py (upload batch, token gate, chat).   *)
(*                                                                         *)
(* Texts are TLA+ strings, read character by character with SubSeq.  The   *)
(* one character SANY cannot lex inside a string is the backtick, so the   *)
(* backtick of the source is written "~" throughout (FENCE is three of     *)
(* them); no text of the model uses "~" for anything else.                 *)
(***************************************************************************)
EXTENDS Integers, Sequences, FiniteSets, TLC

(***************************************************************************)
(* Python str primitives used by analyze_contract.  Indexes are 0-based,   *)
(* as in Python; -1 is "not found".                                        *)
(***************************************************************************)

\* s[i] for 0 <= i < len(s)
CharAt(s, i) == SubSeq(s, i + 1, i + 1)

\* s[a:b] for 0 <= a <= len(s) and 0 <= b <= len(s); empty when b <= a
Slice(s, a, b) == IF b <= a THEN "" ELSE SubSeq(s, a + 1, b)

\* s.startswith(sub, i)
MatchAt(s, sub, i) ==
    /\ i >= 0
    /\ i + Len(sub) <= Len(s)
    /\ SubSeq(s, i + 1, i + Len(sub)) = sub

\* s.find(sub): the lowest index at which sub occurs
Find(s, sub) ==
    LET last == Len(s) - Len(sub) IN
    IF \E i \in 0..last : MatchAt(s, sub, i)
    THEN CHOOSE i \in 0..last :
            MatchAt(s, sub, i) /\ \A j \in 0..(i - 1) : ~MatchAt(s, sub, j)
    ELSE -1

\* s.rfind(sub, start): the highest index >= start at which sub occurs
RFind(s, sub, start) ==
    LET last == Len(s) - Len(sub) IN
    IF \E i \in start..last : MatchAt(s, sub, i)
    THEN CHOOSE i \in start..last :
            MatchAt(s, sub, i) /\ \A j \in (i + 1)..last : ~MatchAt(s, sub, j)
    ELSE -1

\* sub in s
Contains(s, sub) == \E i \in 0..(Len(s) - Len(sub)) : MatchAt(s, sub, i)

\* s.endswith(sub)
EndsWith(s, sub) == Len(sub) <= Len(s) /\ MatchAt(s, sub, Len(s) - Len(sub))

WhiteSpace == {" ", "\n", "\t", "\r"}

IsSpace(s, i) == CharAt(s, i) \in WhiteSpace

\* s.strip(): from the first character that is not whitespace to the last
Strip(s) ==
    LET n == Len(s) IN
    IF \A i \in 0..(n - 1) : IsSpace(s, i) THEN ""
    ELSE LET first == CHOOSE i \in 0..(n - 1) :
                         ~IsSpace(s, i) /\ \A j \in 0..(i - 1) : IsSpace(s, j)
             last == CHOOSE i \in 0..(n - 1) :
                         ~IsSpace(s, i) /\ \A j \in (i + 1)..(n - 1) : IsSpace(s, j)
         IN  Slice(s, first, last + 1)

UpperCase == "ABCDEFGHIJKLMNOPQRSTUVWXYZ"
LowerCase == "abcdefghijklmnopqrstuvwxyz"

LowerChar(c) ==
    LET i == Find(UpperCase, c) IN
    IF i = -1 THEN c ELSE CharAt(LowerCase, i)

RECURSIVE Lower(_)
\* s.lower() (ASCII letters; the texts of the model hold no others)
Lower(s) ==
    IF Len(s) = 0 THEN ""
    ELSE IF Len(s) = 1 THEN LowerChar(s)
    ELSE LET h == Len(s) \div 2 IN
         Lower(SubSeq(s, 1, h)) \o Lower(SubSeq(s, h + 1, Len(s)))

(***************************************************************************)
(* json.loads, as analyze_contract uses it (line 66): the standard         *)
(* library's decoder on the grammar the responses of the model use:        *)
(* objects, arrays, strings with the escapes \" \\ \/ \n \r \t \f, numbers *)
(* with an optional sign and fraction, true, false, null, and whitespace   *)
(* between tokens.  A JSON value is a record [t, v]: t is the Python type  *)
(* the decoder builds (null is None, obj a dict, arr a list) and v its     *)
(* content; a dict is a function from its keys, so a repeated key keeps    *)
(* its last value, as a Python dict does; a number is <<m, k>>, meaning    *)
(* m / 10^k, an int when k = 0 and a float otherwise.                      *)
(***************************************************************************)
JNull == [t |-> "null", v |-> "None"]
JBool(b) == [t |-> "bool", v |-> b]
JNum(m, k) == [t |-> "num", v |-> <<m, k>>]
JStr(s) == [t |-> "str", v |-> s]
JArr(items) == [t |-> "arr", v |-> items]
JObj(f) == [t |-> "obj", v |-> f]
EmptyDict == [x \in {} |-> JNull]

\* a decoding step: ok = FALSE is the decoder's JSONDecodeError
JFail == [ok |-> FALSE, v |-> JNull, end |-> 0]
JOk(val, e) == [ok |-> TRUE, v |-> val, end |-> e]

Digits == "0123456789"
IsDigit(s, i) == i < Len(s) /\ Contains(Digits, CharAt(s, i))

RECURSIVE SkipWs(_, _)
SkipWs(s, i) ==
    IF i < Len(s) /\ CharAt(s, i) \in WhiteSpace THEN SkipWs(s, i + 1) ELSE i

\* the character an escape stands for, "" when the escape is not one
Unescape(c) ==
    CASE c = "\"" -> "\""
      [] c = "\\" -> "\\"
      [] c = "/" -> "/"
      [] c = "n" -> "\n"
      [] c = "r" -> "\r"
      [] c = "t" -> "\t"
      [] c = "f" -> "\f"
      [] OTHER -> ""

\* the length of the run of backslashes that ends just before j, within s[i:]
BackslashRun(s, i, j) ==
    CHOOSE n \in 0..(j - i) :
        /\ \A d \in 1..n : CharAt(s, j - d) = "\\"
        /\ n = j - i \/ CharAt(s, j - n - 1) # "\\"

\* a backslash that starts an escape, or a quote that ends the string: one
\* that an even run of backslashes precedes
Unescaped(s, i, j) == BackslashRun(s, i, j) % 2 = 0

RECURSIVE DecodeEscapes(_)
\* the characters of a string body, each escape replaced by its character
DecodeEscapes(body) ==
    LET p == Find(body, "\\") IN
    IF p = -1 THEN body
    ELSE Slice(body, 0, p) \o Unescape(CharAt(body, p + 1))
            \o DecodeEscapes(Slice(body, p + 2, Len(body)))

\* py_scanstring from i, just after the opening quote, in strict mode: the
\* string runs to the first quote no escape covers; a raw control character
\* or an unknown escape before it is an error
ScanString(s, i) ==
    LET IsEnd(j) == CharAt(s, j) = "\"" /\ Unescaped(s, i, j) IN
    IF ~\E j \in i..(Len(s) - 1) : IsEnd(j) THEN JFail
    ELSE LET end == CHOOSE j \in i..(Len(s) - 1) :
                        IsEnd(j) /\ \A h \in i..(j - 1) : ~IsEnd(h)
         IN  IF \E h \in i..(end - 1) :
                   \/ CharAt(s, h) \in {"\n", "\r", "\t", "\f"}
                   \/ /\ CharAt(s, h) = "\\"
                      /\ Unescaped(s, i, h)
                      /\ Unescape(CharAt(s, h + 1)) = ""
             THEN JFail
             ELSE JOk(JStr(DecodeEscapes(Slice(s, i, end))), end + 1)

RECURSIVE ScanDigits(_, _, _)
\* the run of digits at i: <<value, end>> continuing from value n
ScanDigits(s, i, n) ==
    IF IsDigit(s, i) THEN ScanDigits(s, i + 1, 10 * n + Find(Digits, CharAt(s, i)))
    ELSE <<n, i>>

\* NUMBER_RE: (-?(?:0|[1-9]\d*))(\.\d+)? ; i is at the sign or first digit
ScanNumber(s, i) ==
    LET neg == i < Len(s) /\ CharAt(s, i) = "-"
        d == IF neg THEN i + 1 ELSE i
        int == IF IsDigit(s, d) /\ CharAt(s, d) = "0" THEN <<0, d + 1>>
               ELSE ScanDigits(s, d, 0)
        sign == IF neg THEN -1 ELSE 1
    IN  IF ~IsDigit(s, d) THEN JFail
        ELSE IF int[2] < Len(s) /\ CharAt(s, int[2]) = "." /\ IsDigit(s, int[2] + 1)
        THEN LET frac == ScanDigits(s, int[2] + 1, int[1])
             IN  JOk(JNum(sign * frac[1], frac[2] - (int[2] + 1)), frac[2])
        ELSE JOk(JNum(sign * int[1], 0), int[2])

RECURSIVE ScanOnce(_, _), ScanMembers(_, _, _), ScanItems(_, _, _)

\* JSONObject's loop; i is at the opening quote of a property name
ScanMembers(s, i, acc) ==
    LET k == ScanString(s, i + 1) IN
    IF ~k.ok THEN JFail ELSE
    LET c == SkipWs(s, k.end) IN
    IF ~(c < Len(s) /\ CharAt(s, c) = ":") THEN JFail ELSE
    LET val == ScanOnce(s, SkipWs(s, c + 1)) IN
    IF ~val.ok THEN JFail ELSE
    LET e == SkipWs(s, val.end)
        acc2 == (k.v.v :> val.v) @@ acc
    IN  IF e >= Len(s) THEN JFail
        ELSE IF CharAt(s, e) = "}" THEN JOk(JObj(acc2), e + 1)
        ELSE IF CharAt(s, e) = ","
        THEN LET n == SkipWs(s, e + 1) IN
             IF n < Len(s) /\ CharAt(s, n) = "\"" THEN ScanMembers(s, n, acc2)
             ELSE JFail
        ELSE JFail

\* JSONArray's loop; i is at the first character of an element
ScanItems(s, i, acc) ==
    LET val == ScanOnce(s, i) IN
    IF ~val.ok THEN JFail ELSE
    LET e == SkipWs(s, val.end)
        acc2 == Append(acc, val.v)
    IN  IF e >= Len(s) THEN JFail
        ELSE IF CharAt(s, e) = "]" THEN JOk(JArr(acc2), e + 1)
        ELSE IF CharAt(s, e) = "," THEN ScanItems(s, SkipWs(s, e + 1), acc2)
        ELSE JFail

\* scan_once: the value that starts at i
ScanOnce(s, i) ==
    IF i >= Len(s) THEN JFail
    ELSE LET c == CharAt(s, i) IN
         CASE c = "\"" -> ScanString(s, i + 1)
           [] c = "{" ->
                LET n == SkipWs(s, i + 1) IN
                IF n >= Len(s) THEN JFail
                ELSE IF CharAt(s, n) = "}" THEN JOk(JObj(EmptyDict), n + 1)
                ELSE IF CharAt(s, n) = "\"" THEN ScanMembers(s, n, EmptyDict)
                ELSE JFail
           [] c = "[" ->
                LET n == SkipWs(s, i + 1) IN
                IF n >= Len(s) THEN JFail
                ELSE IF CharAt(s, n) = "]" THEN JOk(JArr(<<>>), n + 1)
                ELSE ScanItems(s, n, <<>>)
           [] c = "n" -> IF MatchAt(s, "null", i) THEN JOk(JNull, i + 4) ELSE JFail
           [] c = "t" -> IF MatchAt(s, "true", i) THEN JOk(JBool(TRUE), i + 4) ELSE JFail
           [] c = "f" -> IF MatchAt(s, "false", i) THEN JOk(JBool(FALSE), i + 5) ELSE JFail
           [] c = "-" \/ IsDigit(s, i) -> ScanNumber(s, i)
           [] OTHER -> JFail

\* json.loads(s): one value, whitespace around it, nothing after it
JsonLoads(s) ==
    LET r == ScanOnce(s, SkipWs(s, 0)) IN
    IF r.ok /\ SkipWs(s, r.end) = Len(s) THEN r ELSE JFail

(***************************************************************************)
(* Python's float: the IEEE 754 double.  A finite double >= 0 is m * 2^e   *)
(* with m below 2^53; m is a natural number of any size, written as its    *)
(* digits in base 2^15, lowest first, and is odd (or zero, with e = 0).    *)
(* The scores and weights of a contract are far from the overflow and      *)
(* underflow thresholds, and none is negative when it is computed with.    *)
(***************************************************************************)
LIMB == 32768
LIMB_BITS == 15
MANTISSA_BITS == 53

RECURSIVE Pow2(_)
Pow2(k) == IF k = 0 THEN 1 ELSE 2 * Pow2(k - 1)

Max(a, b) == IF a >= b THEN a ELSE b
Min(a, b) == IF a <= b THEN a ELSE b

\* a natural number without its leading zero digits
NatNorm(a) ==
    IF \A i \in DOMAIN a : a[i] = 0 THEN <<>>
    ELSE SubSeq(a, 1, CHOOSE i \in DOMAIN a : a[i] # 0 /\ \A j \in (i + 1)..Len(a) : a[j] = 0)

RECURSIVE NatOf(_)
NatOf(n) == IF n = 0 THEN <<>> ELSE <<n % LIMB>> \o NatOf(n \div LIMB)

RECURSIVE IntOf(_)
IntOf(a) == IF Len(a) = 0 THEN 0 ELSE a[1] + LIMB * IntOf(Tail(a))

Digit(a, i) == IF i <= Len(a) THEN a[i] ELSE 0

\* a < b, a = b
NatLess(a, b) ==
    \/ Len(a) < Len(b)
    \/ /\ Len(a) = Len(b)
       /\ \E i \in DOMAIN a : a[i] < b[i] /\ \A j \in (i + 1)..Len(a) : a[j] = b[j]

RECURSIVE NatAddFrom(_, _, _, _)
NatAddFrom(a, b, i, carry) ==
    IF i > Len(a) /\ i > Len(b)
    THEN (IF carry = 0 THEN <<>> ELSE <<carry>>)
    ELSE LET sum == Digit(a, i) + Digit(b, i) + carry IN
         <<sum % LIMB>> \o NatAddFrom(a, b, i + 1, sum \div LIMB)

NatAdd(a, b) == NatAddFrom(a, b, 1, 0)

RECURSIVE NatSubFrom(_, _, _, _)
NatSubFrom(a, b, i, borrow) ==
    IF i > Len(a) THEN <<>>
    ELSE LET diff == a[i] - Digit(b, i) - borrow IN
         <<diff % LIMB>> \o NatSubFrom(a, b, i + 1, IF diff < 0 THEN 1 ELSE 0)

\* a - b, for a >= b
NatSub(a, b) == NatNorm(NatSubFrom(a, b, 1, 0))

RECURSIVE NatScaleFrom(_, _, _, _)
NatScaleFrom(a, k, i, carry) ==
    IF i > Len(a) THEN (IF carry = 0 THEN <<>> ELSE <<carry>>)
    ELSE LET prod == a[i] * k + carry IN
         <<prod % LIMB>> \o NatScaleFrom(a, k, i + 1, prod \div LIMB)

\* a * k, for k < 2^15
NatScale(a, k) == IF k = 0 THEN <<>> ELSE NatScaleFrom(a, k, 1, 0)

Zeros(n) == [i \in 1..n |-> 0]

RECURSIVE NatMulFrom(_, _, _)
NatMulFrom(a, b, i) ==
    IF i > Len(b) THEN <<>>
    ELSE NatAdd(IF b[i] = 0 THEN <<>> ELSE Zeros(i - 1) \o NatScale(a, b[i]),
                NatMulFrom(a, b, i + 1))

NatMul(a, b) == IF Len(a) = 0 THEN <<>> ELSE NatMulFrom(a, b, 1)

\* a * 2^s
ShiftLeft(a, s) ==
    IF Len(a) = 0 THEN <<>>
    ELSE Zeros(s \div LIMB_BITS) \o NatScale(a, Pow2(s % LIMB_BITS))

\* floor(a / 2^s)
ShiftRight(a, s) ==
    LET rest == SubSeq(a, (s \div LIMB_BITS) + 1, Len(a))
        k == Pow2(s % LIMB_BITS)
    IN  NatNorm([i \in 1..Len(rest) |->
                    (rest[i] \div k) + (Digit(rest, i + 1) % k) * (LIMB \div k)])

\* the number of binary digits of a
BitLength(a) ==
    IF Len(a) = 0 THEN 0
    ELSE (Len(a) - 1) * LIMB_BITS
         + (CHOOSE b \in 1..LIMB_BITS : Pow2(b - 1) <= a[Len(a)] /\ a[Len(a)] < Pow2(b))

\* binary digit i of a, the lowest being digit 0
Bit(a, i) == (Digit(a, (i \div LIMB_BITS) + 1) \div Pow2(i % LIMB_BITS)) % 2

\* the number of zero binary digits a ends in, for a > 0
TrailingZeros(a) ==
    CHOOSE z \in 0..(Len(a) * LIMB_BITS) :
        Bit(a, z) = 1 /\ \A y \in 0..(z - 1) : Bit(a, y) = 0

RECURSIVE QuotientDigit(_, _, _, _)
\* the largest k with d * k <= r, known to be in lo..(hi - 1)
QuotientDigit(r, d, lo, hi) ==
    IF hi - lo = 1 THEN lo
    ELSE LET mid == (lo + hi) \div 2 IN
         IF NatLess(r, NatScale(d, mid))
         THEN QuotientDigit(r, d, lo, mid)
         ELSE QuotientDigit(r, d, mid, hi)

RECURSIVE DivideFrom(_, _, _)
\* long division: quotient and remainder of the digits of n from digit i up
DivideFrom(n, d, i) ==
    IF i > Len(n) THEN [q |-> <<>>, r |-> <<>>]
    ELSE LET high == DivideFrom(n, d, i + 1)
             r2 == NatNorm(<<n[i]>> \o high.r)
             k == QuotientDigit(r2, d, 0, LIMB)
         IN  [q |-> NatNorm(<<k>> \o high.q), r |-> NatSub(r2, NatScale(d, k))]

\* quotient and remainder of n by d > 0
Divide(n, d) == DivideFrom(n, d, 1)

Float(m, e) ==
    IF Len(m) = 0 THEN [m |-> <<>>, e |-> 0]
    ELSE LET z == TrailingZeros(m) IN [m |-> ShiftRight(m, z), e |-> e + z]

\* the double nearest m * 2^e, halves to the even mantissa; inexact tells
\* that the number meant is a little above m * 2^e
RoundToFloat(m, e, inexact) ==
    LET k == BitLength(m) - MANTISSA_BITS
        q == ShiftRight(m, k)
        rest == NatSub(m, ShiftLeft(q, k))
        half == ShiftLeft(<<1>>, k - 1)
        up == \/ NatLess(half, rest)
              \/ rest = half /\ (inexact \/ Bit(q, 0) = 1)
    IN  IF k <= 0 THEN Float(m, e)
        ELSE Float(IF up THEN NatAdd(q, <<1>>) ELSE q, e + k)

FloatZero == Float(<<>>, 0)

\* x * y
FloatMul(x, y) == RoundToFloat(NatMul(x.m, y.m), x.e + y.e, FALSE)

\* x + y
FloatAdd(x, y) ==
    LET e == Min(x.e, y.e) IN
    RoundToFloat(NatAdd(ShiftLeft(x.m, x.e - e), ShiftLeft(y.m, y.e - e)), e, FALSE)

\* x / y, for y > 0
FloatDiv(x, y) ==
    LET s == Max(0, MANTISSA_BITS + 3 + BitLength(y.m) - BitLength(x.m))
        d == Divide(ShiftLeft(x.m, s), y.m)
    IN  RoundToFloat(d.q, x.e - y.e - s, Len(d.r) > 0)

RECURSIVE NatPow10(_)
NatPow10(k) == IF k = 0 THEN <<1>> ELSE NatScale(NatPow10(k - 1), 10)

\* the double of the decimal n / 10^k: float("n.nnn"), and float(n) of an int
FloatOf(n, k) == FloatDiv([m |-> NatOf(n), e |-> 0], [m |-> NatPow10(k), e |-> 0])

\* round(x, 1) in tenths: the tenth nearest x, halves to the even tenth
RoundTenths(x) ==
    LET n == NatScale(x.m, 10)
        k == -x.e
        q == ShiftRight(n, k)
        rest == NatSub(n, ShiftLeft(q, k))
        half == ShiftLeft(<<1>>, k - 1)
        up == NatLess(half, rest) \/ (rest = half /\ Bit(q, 0) = 1)
    IN  IF k <= 0 THEN IntOf(ShiftLeft(n, x.e))
        ELSE IntOf(q) + (IF up THEN 1 ELSE 0)

(***************************************************************************)
(* analyze_contract, src/folder1/analysis.py lines 21-119.                 *)
(***************************************************************************)
FENCE == "~~~"
FENCE_JSON == "~~~json"

\* lines 38-46: the text between the first fence marker and the last one
StripFences(response_text) ==
    IF Contains(response_text, FENCE_JSON)
    THEN Strip(Slice(response_text, Find(response_text, FENCE_JSON) + 7,
                     RFind(response_text, FENCE, 0)))
    ELSE IF Contains(response_text, FENCE)
    THEN Strip(Slice(response_text, Find(response_text, FENCE) + 3,
                     RFind(response_text, FENCE, 0)))
    ELSE response_text

\* lines 36-46: response.content.strip(), then the fences
Sanitize(content) == StripFences(Strip(content))

CLOSING_FRAGMENT == ",\n  \"flags\": [],\n  \"overall_risk_score\": null\n}"

\* lines 57-63: "Fix truncated JSON".  rfind's second argument is where
\* the search starts, so the "  ]" looked for is one at or after the last
\* "    }" of the text.
FixTruncated(response_text) ==
    IF EndsWith(response_text, "}") THEN response_text
    ELSE LET last_complete_clause == RFind(response_text, "    }", 0) IN
         IF last_complete_clause = -1 THEN response_text
         ELSE LET clauses_end == RFind(response_text, "  ]", last_complete_clause) IN
              IF clauses_end = -1 THEN response_text
              ELSE Slice(response_text, 0, clauses_end + 3) \o CLOSING_FRAGMENT

\* a check that lets every text through
NeverEmpty(response_text) == FALSE

\* line 49: "if not response_text"
IsEmpty(response_text) == response_text = ""

\* lines 50-55
EmptyResponseResult ==
    JObj(("summary" :> JStr("Unable to analyze contract - empty response from model."))
      @@ ("clauses" :> JArr(<<>>))
      @@ ("flags" :> JArr(<<JStr("Empty response from LLM")>>))
      @@ ("overall_risk_score" :> JNull))

\* lines 112-117
ParseErrorResult ==
    JObj(("summary" :> JStr("Error: Could not parse LLM response. The model may not have returned valid JSON."))
      @@ ("clauses" :> JArr(<<>>))
      @@ ("flags" :> JArr(<<JStr("JSON parse error - check if model supports structured output")>>))
      @@ ("overall_risk_score" :> JNull))

\* lines 69-80, in the dict's iteration order; a weight <<n, k>> is the
\* literal n / 10^k
CLAUSE_WEIGHTS ==
    << <<"liability", <<30, 1>> >>,
       <<"indemnity", <<30, 1>> >>,
       <<"intellectual property", <<30, 1>> >>,
       <<"termination", <<25, 1>> >>,
       <<"fees and payment terms", <<25, 1>> >>,
       <<"scope of services", <<20, 1>> >>,
       <<"confidentiality", <<15, 1>> >>,
       <<"amendments", <<10, 1>> >>,
       <<"force majeure", <<10, 1>> >>,
       <<"default", <<15, 1>> >> >>

\* CLAUSE_WEIGHTS["default"]
DefaultWeight ==
    CLAUSE_WEIGHTS[CHOOSE i \in DOMAIN CLAUSE_WEIGHTS : CLAUSE_WEIGHTS[i][1] = "default"][2]

RECURSIVE MatchWeightFrom(_, _)
\* a loop without the break of line 96: the last matching item wins
MatchWeightLast(name, i) ==
    LET hits == {j \in i..Len(CLAUSE_WEIGHTS) :
                    CLAUSE_WEIGHTS[j][1] # "default" /\ Contains(name, CLAUSE_WEIGHTS[j][1])}
    IN  IF hits = {} THEN 0 ELSE CHOOSE j \in hits : \A k \in hits : k <= j

\* lines 93-96: the first item, in iteration order, whose key is not
\* "default" and is in the name; 0 when the loop ends without a break
MatchWeightFrom(name, i) ==
    IF i > Len(CLAUSE_WEIGHTS) THEN 0
    ELSE IF CLAUSE_WEIGHTS[i][1] # "default" /\ Contains(name, CLAUSE_WEIGHTS[i][1]) THEN i
    ELSE MatchWeightFrom(name, i + 1)

\* lines 90-96
FindWeight(name) ==
    LET i == MatchWeightFrom(name, 1) IN
    IF i = 0 THEN DefaultWeight ELSE CLAUSE_WEIGHTS[i][2]

\* dict.get(key, default)
Get(obj, key, default) == IF key \in DOMAIN obj.v THEN obj.v[key] ELSE default

\* isinstance(score, (int, float)): bool is a subclass of int
IsIntOrFloat(val) == val.t \in {"num", "bool"}

\* the number a score compares and multiplies as (True is 1, False is 0)
NumberOf(val) ==
    IF val.t = "bool" THEN (IF val.v THEN <<1, 0>> ELSE <<0, 0>>) ELSE val.v

\* score > 0
Positive(number) == number[1] > 0

RECURSIVE KeysOf(_)
KeysOf(keys) ==
    IF keys = {} THEN <<>>
    ELSE LET k == CHOOSE x \in keys : TRUE IN <<JStr(k)>> \o KeysOf(keys \ {k})

\* what "for clause in clauses" iterates over: a list's items, a dict's
\* keys, a str's characters; anything else is a TypeError
Iterable(val) == val.t \in {"arr", "obj", "str"}
ItemsOf(val) ==
    CASE val.t = "arr" -> val.v
      [] val.t = "obj" -> KeysOf(DOMAIN val.v)
      [] val.t = "str" -> [i \in 1..Len(val.v) |-> JStr(CharAt(val.v, i - 1))]

\* lines 84-85; weight is the local of lines 90-95, not yet assigned
NoWeight == <<0, 0>>
ZeroTotals ==
    [total_weighted_score |-> FloatZero, total_weight |-> FloatZero,
     weight |-> NoWeight, error |-> FALSE]

\* lines 88-100, one pass of the loop body; error is an exception raised
\* by clause.get (the clause is no dict) or by .lower() (the name no str)
ClauseStep(totals, clause) ==
    IF clause.t # "obj" THEN [totals EXCEPT !.error = TRUE]
    ELSE LET score == Get(clause, "risk_score", JNum(0, 0))
             clause_name == Get(clause, "clause_name", JStr(""))
         IN  IF clause_name.t # "str" THEN [totals EXCEPT !.error = TRUE]
             ELSE LET w == FindWeight(Lower(clause_name.v))
                      weight == FloatOf(w[1], w[2])
                      number == NumberOf(score)
                  IN  IF IsIntOrFloat(score) /\ Positive(number)
                      THEN [totals EXCEPT
                              !.weight = w,
                              !.total_weighted_score =
                                  FloatAdd(@, FloatMul(FloatOf(number[1], number[2]), weight)),
                              !.total_weight = FloatAdd(@, weight)]
                      ELSE [totals EXCEPT !.weight = w]

\* lines 102-105
OverallRiskScore(totals) ==
    IF Len(totals.total_weight.m) > 0
    THEN JNum(RoundTenths(FloatDiv(totals.total_weighted_score, totals.total_weight)), 1)
    ELSE JNull

\* result["overall_risk_score"] = value
SetOverall(result, value) == JObj(("overall_risk_score" :> value) @@ result.v)

\* what a call of analyze_contract ends in: a returned dict, or the
\* RuntimeError of line 119
Returned(path, result) == [kind |-> "return", path |-> path, result |-> result]
Raised == [kind |-> "raise", path |-> "error", result |-> JNull]

\* a handler that raises a RuntimeError as line 119 does
OnJSONDecodeErrorRaise == Raised

\* lines 109-117: "except json.JSONDecodeError"
OnJSONDecodeError == Returned("parse_error", ParseErrorResult)

RECURSIVE ScoreLoop(_, _, _)
\* lines 87-100
ScoreLoop(items, i, totals) ==
    IF totals.error \/ i > Len(items) THEN totals
    ELSE ScoreLoop(items, i + 1, ClauseStep(totals, items[i]))

\* lines 82-107 on the parsed result
ScoreResult(result) ==
    IF result.t # "obj" THEN Raised
    ELSE LET clauses == Get(result, "clauses", JArr(<<>>)) IN
         IF ~Iterable(clauses) THEN Raised
         ELSE LET totals == ScoreLoop(ItemsOf(clauses), 1, ZeroTotals) IN
              IF totals.error THEN Raised
              ELSE Returned("scored", SetOverall(result, OverallRiskScore(totals)))

\* lines 26-119 for one completion: llm is [ok, content], ok = FALSE when
\* the completion capability raises
AnalyzeContract(llm) ==
    IF ~llm.ok THEN Raised
    ELSE LET sanitized == Sanitize(llm.content) IN
         IF IsEmpty(sanitized) THEN Returned("empty", EmptyResponseResult)
         ELSE LET parsed == JsonLoads(FixTruncated(sanitized)) IN
              IF ~parsed.ok THEN OnJSONDecodeError
              ELSE ScoreResult(parsed.v)

(***************************************************************************)
(* The completion capability.  analyze_contract asks for one JSON object   *)
(* in the layout of the prompt (src/prompts/templates.py lines 44-50); the *)
(* model answers with such an object, pretty-printed with two spaces per   *)
(* level, possibly cut off by max_tokens (analysis.py line 16), possibly   *)
(* inside a fenced code block (analysis.py line 38), or with another text, *)
(* or fails.                                                               *)
(***************************************************************************)
MaxClauses == 3

\* a field the model left out of a clause
ABSENT == "<absent>"

Clause(name, score) == [clause_name |-> name, risk_score |-> score]

\* the clauses the model reports, a name and the literal it wrote as the
\* score: those it combines freely in one answer
ClauseChoices ==
    { Clause("Amendments", "3.8"),
      Clause("Liability Cap", "6.9"),
      Clause("Scope of Services", "5.9"),
      Clause("Indemnity", "0") }

\* those it reports alone
LoneClauses ==
    { Clause("Termination and Liability", "4"),
      Clause("Scope of Services; Fees and Payment Terms", "7"),
      Clause("Reliability", "3"),
      Clause("CONFIDENTIALITY & Amendments", "6"),
      Clause("Confidentiality", "10"),
      Clause("Intellectual Property Rights", "9"),
      Clause("Default Terms", "1"),
      Clause("Miscellaneous Terms", "5"),
      Clause(ABSENT, "9"),
      Clause("Intellectual Property", ABSENT),
      Clause("Indemnity", "-2"),
      Clause("Indemnity", "false") }

\* the example of spec section 8: 6.5
ExampleClauses == <<Clause("Liability Cap", "8"), Clause("Force Majeure", "2")>>

\* and some answers more
OtherLists ==
    { ExampleClauses,
      <<Clause("Liability Cap", "8"), Clause("Amendments", "1")>>,
      <<Clause("Force Majeure", "2"), Clause("Miscellaneous Terms", "5"),
        Clause("Fees and Payment Terms", "2.5")>>,
      <<Clause("Termination", "\"7\""), Clause("Miscellaneous Terms", "5")>>,
      <<Clause("Amendments", "true")>>,
      <<Clause("Termination", "null"), Clause("Fees and Payment Terms", "10")>> }

ClauseLists ==
    UNION {[1..n -> ClauseChoices] : n \in 0..MaxClauses}
    \cup {<<c>> : c \in LoneClauses}
    \cup OtherLists

RECURSIVE Join(_, _)
\* sep.join(parts)
Join(parts, sep) ==
    IF Len(parts) = 0 THEN ""
    ELSE IF Len(parts) = 1 THEN parts[1]
    ELSE parts[1] \o sep \o Join(Tail(parts), sep)

RenderClause(c) ==
    LET name == IF c.clause_name = ABSENT THEN <<>>
                ELSE <<"      \"clause_name\": \"" \o c.clause_name \o "\"">>
        score == IF c.risk_score = ABSENT THEN <<>>
                 ELSE <<"      \"risk_score\": " \o c.risk_score>>
    IN  "    {\n" \o Join(name \o score, ",\n") \o "\n    }"

SUMMARY == "A services agreement."

\* the object of the prompt's schema: summary, clauses, flags and the
\* model's own overall_risk_score
RenderDoc(clauses, overall) ==
    "{\n  \"summary\": \"" \o SUMMARY \o "\",\n  \"clauses\": "
    \o (IF Len(clauses) = 0 THEN "[]"
        ELSE "[\n" \o Join([i \in 1..Len(clauses) |-> RenderClause(clauses[i])], ",\n")
                \o "\n  ]")
    \o ",\n  \"flags\": [\n    \"High risk in payment terms\"\n  ],\n"
    \o "  \"overall_risk_score\": " \o overall \o "\n}"

\* how the model wraps its answer
Wrap(wrap, text) ==
    CASE wrap = "none"  -> text
      [] wrap = "json"  -> "~~~json\n" \o text \o "\n~~~"
      [] wrap = "plain" -> "~~~\n" \o text \o "\n~~~"
      [] wrap = "upper" -> "~~~JSON\n" \o text \o "\n~~~"
      [] wrap = "prose" -> "Here is the analysis:\n\n~~~json\n" \o text \o "\n~~~\nDone."
      [] wrap = "open"  -> "~~~json\n" \o text

\* an answer: the first cut characters of a rendered object, wrapped
Doc(clauses, overall, cut, wrap) ==
    [kind |-> "doc", clauses |-> clauses, overall |-> overall, cut |-> cut,
     wrap |-> wrap, text |-> ""]
FullDoc(clauses, overall, wrap) ==
    Doc(clauses, overall, Len(RenderDoc(clauses, overall)), wrap)
Text(text) ==
    [kind |-> "text", clauses |-> <<>>, overall |-> "", cut |-> 0, wrap |-> "none",
     text |-> text]
Failure ==
    [kind |-> "fail", clauses |-> <<>>, overall |-> "", cut |-> 0, wrap |-> "none",
     text |-> ""]

FullDocs == {FullDoc(cl, "9.9", "none") : cl \in ClauseLists}

TruncatedDocs ==
    {Doc(ExampleClauses, "null", n, "none") :
        n \in 0..Len(RenderDoc(ExampleClauses, "null"))}

WrappedDocs ==
    {FullDoc(cl, "null", w) :
        cl \in {<<>>, ExampleClauses}, w \in {"json", "plain", "upper", "prose", "open"}}
    \cup {Doc(ExampleClauses, "null", 0, w) : w \in {"json", "plain"}}

Texts ==
    { Text(""), Text("  \n "), Text("~~~json\n~~~"), Text("~~~~~~"),
      Text("not json at all"),
      Text("[]"), Text("3"), Text("null"),
      Text("{}"), Text(" {\"clauses\": []} "),
      Text("{\"summary\": \"s\", \"clauses\": null}"),
      Text("{\"clauses\": {}}"),
      Text("{\"clauses\": \"none\"}"),
      Text("{\"clauses\": [3]}"),
      Text("{\"clauses\": [{\"clause_name\": \"Liability\", \"risk_score\": 8}, \"x\"]}"),
      Text("{\"clauses\": [{\"clause_name\": null, \"risk_score\": 5}]}"),
      Text("{\"summary\": \"see ~~~x~~~ here\", \"clauses\": []}"),
      Text("{\"summary\": \"a ~~~ mark\", \"clauses\": []}") }

Generations == FullDocs \cup TruncatedDocs \cup WrappedDocs \cup Texts \cup {Failure}

\* the text of an answer
Content(g) ==
    IF g.kind = "doc"
    THEN Wrap(g.wrap, SubSeq(RenderDoc(g.clauses, g.overall), 1, g.cut))
    ELSE g.text

\* llm.invoke(prompt): ok = FALSE when the capability raises
Completion(g) == [ok |-> g.kind # "fail", content |-> Content(g)]

(***************************************************************************)
(* State.  The first group is one ContractAnalysisChain and the call of    *)
(* analyze_contract in progress on it; the second is the Streamlit session *)
(* of src/app.py.                                                          *)
(***************************************************************************)
VARIABLES
    pc,             \* where the call of analyze_contract stands
    gen,            \* what the model answers to this chain's prompt
    llm,            \* the completion capability's response (line 35)
    response_text,  \* the local of lines 36-66
    result,         \* the local of lines 66-107
    items,          \* the clauses the loop of line 87 iterates over
    clause_i,       \* the position of that loop
    totals,         \* total_weighted_score, total_weight, weight (lines 84-100)
    outcome,        \* what the call ended in
    steps,          \* the steps this call has taken
    calls,          \* the outcomes of the calls completed on this chain
    uploaded_files, \* the file_uploader widget of app.py line 47
    session_state,  \* st.session_state, a dict
    analysis_chain, \* what analyze_contract returns for each contract
    run,            \* what the last run of the script did
    chunking        \* the last call of _chunk_documents and what it returned

analysisVars == <<pc, gen, llm, response_text, result, items, clause_i, totals,
                  outcome, steps, calls>>
appVars == <<uploaded_files, session_state, analysis_chain, run, chunking>>
vars == <<pc, gen, llm, response_text, result, items, clause_i, totals,
          outcome, steps, calls, uploaded_files, session_state, analysis_chain, run,
          chunking>>

Pending == [kind |-> "pending", path |-> "", result |-> JNull]

\* a chain as get_analysis_chain() builds it, no call made yet
AnalysisInit ==
    /\ pc = "idle"
    /\ gen = Failure
    /\ llm = [ok |-> FALSE, content |-> ""]
    /\ response_text = ""
    /\ result = JNull
    /\ items = <<>>
    /\ clause_i = 1
    /\ totals = ZeroTotals
    /\ outcome = Pending
    /\ steps = {}
    /\ calls = <<>>

(***************************************************************************)
(* analyze_contract step by step.                                          *)
(***************************************************************************)
MaxCalls == 2

\* lines 28-36: the prompt is sent and the response stripped.  The chain is
\* called with one contract; a later call is the same contract again, and
\* the model (temperature 0.0, line 15) answers as before.
Invoke(g) ==
    /\ pc = "idle"
    /\ Len(calls) < MaxCalls
    /\ calls = <<>> \/ g = gen
    /\ gen' = g
    /\ llm' = Completion(g)
    /\ steps' = {"invoke"}
    /\ IF llm'.ok
       THEN /\ response_text' = Strip(llm'.content)
            /\ pc' = "fences"
            /\ outcome' = Pending
       ELSE /\ outcome' = Raised
            /\ pc' = "done"
            /\ UNCHANGED response_text
    /\ UNCHANGED <<result, items, clause_i, totals, calls>>
    /\ UNCHANGED appVars

\* lines 38-46
StripFencesStep ==
    /\ pc = "fences"
    /\ response_text' = StripFences(response_text)
    /\ steps' = steps \cup {"fences"}
    /\ pc' = "empty_check"
    /\ UNCHANGED <<gen, llm, result, items, clause_i, totals, outcome, calls>>
    /\ UNCHANGED appVars

\* lines 48-55
EmptyCheck ==
    /\ pc = "empty_check"
    /\ steps' = steps \cup {"empty_check"}
    /\ IF IsEmpty(response_text)
       THEN outcome' = Returned("empty", EmptyResponseResult) /\ pc' = "done"
       ELSE outcome' = outcome /\ pc' = "fix"
    /\ UNCHANGED <<gen, llm, response_text, result, items, clause_i, totals, calls>>
    /\ UNCHANGED appVars

\* lines 57-63
FixTruncatedStep ==
    /\ pc = "fix"
    /\ response_text' = FixTruncated(response_text)
    /\ steps' = steps \cup {"fix"}
    /\ pc' = "parse"
    /\ UNCHANGED <<gen, llm, result, items, clause_i, totals, outcome, calls>>
    /\ UNCHANGED appVars

\* line 66, and lines 109-117 when json.loads raises
ParseStep ==
    /\ pc = "parse"
    /\ steps' = steps \cup {"parse"}
    /\ LET parsed == JsonLoads(response_text) IN
       IF parsed.ok
       THEN result' = parsed.v /\ pc' = "clauses" /\ outcome' = outcome
       ELSE outcome' = OnJSONDecodeError /\ pc' = "done"
            /\ result' = result
    /\ UNCHANGED <<gen, llm, response_text, items, clause_i, totals, calls>>
    /\ UNCHANGED appVars

\* lines 83-87: result.get, the totals at zero, the iteration started
GetClauses ==
    /\ pc = "clauses"
    /\ steps' = steps \cup {"score"}
    /\ IF result.t = "obj" /\ Iterable(Get(result, "clauses", JArr(<<>>)))
       THEN /\ items' = ItemsOf(Get(result, "clauses", JArr(<<>>)))
            /\ totals' = ZeroTotals
            /\ clause_i' = 1
            /\ pc' = "loop"
            /\ outcome' = outcome
       ELSE /\ outcome' = Raised
            /\ pc' = "done"
            /\ UNCHANGED <<items, totals, clause_i>>
    /\ UNCHANGED <<gen, llm, response_text, result, calls>>
    /\ UNCHANGED appVars

\* lines 87-100, one clause
ClauseLoop ==
    /\ pc = "loop"
    /\ clause_i <= Len(items)
    /\ totals' = ClauseStep(totals, items[clause_i])
    /\ IF totals'.error
       THEN outcome' = Raised /\ pc' = "done" /\ clause_i' = clause_i
       ELSE outcome' = outcome /\ pc' = "loop" /\ clause_i' = clause_i + 1
    /\ UNCHANGED <<gen, llm, response_text, result, items, steps, calls>>
    /\ UNCHANGED appVars

\* lines 102-107
Finish ==
    /\ pc = "loop"
    /\ clause_i > Len(items)
    /\ result' = SetOverall(result, OverallRiskScore(totals))
    /\ outcome' = Returned("scored", result')
    /\ pc' = "done"
    /\ UNCHANGED <<gen, llm, response_text, items, clause_i, totals, steps, calls>>
    /\ UNCHANGED appVars

\* the call is over: its outcome goes to the caller
Return ==
    /\ pc = "done"
    /\ calls' = Append(calls, outcome)
    /\ pc' = "idle"
    /\ UNCHANGED <<gen, llm, response_text, result, items, clause_i, totals,
                   outcome, steps>>
    /\ UNCHANGED appVars

AnalysisNext ==
    \/ \E g \in Generations : Invoke(g)
    \/ StripFencesStep
    \/ EmptyCheck
    \/ FixTruncatedStep
    \/ ParseStep
    \/ GetClauses
    \/ ClauseLoop
    \/ Finish
    \/ Return

(***************************************************************************)
(* The session of src/app.py.  Streamlit runs the whole script on every    *)
(* interaction; an exception stops the run where it is raised and leaves   *)
(* st.session_state as the run had made it.                                *)
(***************************************************************************)
MAX_TOKENS == 8192
WARN_THRESHOLD == 5734
BUFFER_TOKENS == 500

MaxFiles == 2
MaxMessages == 4

\* the files a user has, in the order the uploader lists them
FileList == <<"nda.pdf", "msa.docx", "lease.pdf", "memo.docx", "scan.pdf">>
FileNames == {FileList[i] : i \in DOMAIN FileList}

\* extract_text(tmp_path) (line 61): "" when no text can be extracted
ExtractedText(name) == IF name = "scan.pdf" THEN "" ELSE "text of " \o name

\* what the model answers for a contract: the same text each time
\* (temperature 0.0)
DocGeneration(source) ==
    CASE source = "nda.pdf"   -> FullDoc(ExampleClauses, "null", "json")
      [] source = "msa.docx"  -> Text("not json at all")
      [] source = "lease.pdf" -> Text("[]")
      [] OTHER                -> Text("")

RECURSIVE OutcomesOf(_)
OutcomesOf(names) ==
    IF Len(names) = 0 THEN <<>>
    ELSE (Head(names) :> AnalyzeContract(Completion(DocGeneration(Head(names)))))
         @@ OutcomesOf(Tail(names))

\* analyze_contract (line 90) on each contract, a function of its text when
\* the completion answers; "<failure>" is any contract when it fails
FAILURE == "<failure>"
FileOutcome == OutcomesOf(FileList) @@ (FAILURE :> AnalyzeContract(Completion(Failure)))

IsUploaded(S, name) == name \in S

\* the uploader's contents: at most MaxFiles of the files
Uploads ==
    {SelectSeq(FileList, LAMBDA name : IsUploaded(S, name)) :
        S \in {T \in SUBSET FileNames : Cardinality(T) <= MaxFiles}}

\* the questions a user asks and the answers the completion gives, each
\* with the number of tokens encoder.encode makes of it (line 27)
Prompts == {"short question", "long question", "longest question"}
Answers == {"Yes."}
EncodedLen(content) ==
    CASE content = "short question"   -> 1
      [] content = "long question"    -> 5233
      [] content = "longest question" -> 7691
      [] content = "Yes."             -> 1
      [] OTHER                        -> 0

RECURSIVE count_tokens(_)
\* lines 24-28
count_tokens(messages) ==
    IF Len(messages) = 0 THEN 0
    ELSE EncodedLen(Head(messages).content) + count_tokens(Tail(messages))

\* a gate whose zones begin at the thresholds
TokenGateFromThresholds(total_used_tokens) ==
    IF total_used_tokens >= MAX_TOKENS THEN "blocked"
    ELSE IF total_used_tokens >= WARN_THRESHOLD THEN "warn"
    ELSE "ok"

\* lines 137-141: what the script does with total_used_tokens
TokenGate(total_used_tokens) ==
    IF total_used_tokens > MAX_TOKENS THEN "blocked"
    ELSE IF total_used_tokens > WARN_THRESHOLD THEN "warn"
    ELSE "ok"

\* what the capabilities do during one run of the script: whether the
\* index can be built and which analysis call (0: none) the completion
\* capability fails
UploadEnvs == [index_ok : BOOLEAN, fail_at : 0..MaxFiles]

\* and how a question is answered: the retriever fails or returns docs,
\* the chunks it found (none, one or two), and the completion fails or
\* answers
NoPrompt == "<none>"
RagOutcomes ==
    {[retrieval |-> "fail", docs |-> <<>>, completion |-> "none", answer |-> ""]}
    \cup {[retrieval |-> "ok", docs |-> d, completion |-> "fail", answer |-> ""] :
             d \in {<<>>, <<"Payment is due in 30 days.">>,
                    <<"Payment is due in 30 days.", "Either party may terminate.">>}}
    \cup {[retrieval |-> "ok", docs |-> d, completion |-> "ok", answer |-> a] :
             a \in Answers,
             d \in {<<>>, <<"Payment is due in 30 days.">>,
                    <<"Payment is due in 30 days.", "Either party may terminate.">>}}

\* an answerer that does not ask the model when nothing was retrieved
RagInvokeSkippingEmpty(question, rag) ==
    LET context == Join(rag.docs, "\n")
        prompt == "Based on this contract:\n" \o context \o "\n\nQuestion: " \o question
                  \o "\n\nAnswer:"
    IN  IF rag.retrieval = "fail"
        THEN [ok |-> FALSE, content |-> "", retriever_calls |-> 1, llm_calls |-> 0,
              prompt |-> ""]
        ELSE IF Len(rag.docs) = 0
        THEN [ok |-> TRUE, content |-> "", retriever_calls |-> 1, llm_calls |-> 0,
              prompt |-> ""]
        ELSE IF rag.completion = "fail"
        THEN [ok |-> FALSE, content |-> "", retriever_calls |-> 1, llm_calls |-> 1,
              prompt |-> prompt]
        ELSE [ok |-> TRUE, content |-> rag.answer, retriever_calls |-> 1, llm_calls |-> 1,
              prompt |-> prompt]

\* ContractRAGChain.invoke (src/chains/rag.py lines 26-38): the retriever,
\* then the completion on the prompt of line 32; an exception of either is
\* logged and raised again
RagInvoke(question, rag) ==
    LET context == Join(rag.docs, "\n")
        prompt == "Based on this contract:\n" \o context \o "\n\nQuestion: " \o question
                  \o "\n\nAnswer:"
    IN  IF rag.retrieval = "fail"
        THEN [ok |-> FALSE, content |-> "", retriever_calls |-> 1, llm_calls |-> 0,
              prompt |-> ""]
        ELSE IF rag.completion = "fail"
        THEN [ok |-> FALSE, content |-> "", retriever_calls |-> 1, llm_calls |-> 1,
              prompt |-> prompt]
        ELSE [ok |-> TRUE, content |-> rag.answer, retriever_calls |-> 1, llm_calls |-> 1,
              prompt |-> prompt]

Set(dict, key, value) == (key :> value) @@ dict

HasText(name) == ExtractedText(name) # ""

\* lines 49-96: the upload section.  aborted names the exception that
\* stopped the run, results is the local analysis_results of line 88
UploadSection(ss, files, env) ==
    LET all_docs == SelectSeq(files, HasText)
        outcomes == [i \in 1..Len(all_docs) |->
                        analysis_chain[IF env.fail_at = i THEN FAILURE ELSE all_docs[i]]]
        raising == {i \in 1..Len(all_docs) : outcomes[i].kind = "raise"}
        done == IF raising = {} THEN Len(all_docs)
                ELSE (CHOOSE i \in raising : \A j \in raising : i <= j) - 1
        analysis_results == [i \in 1..done |->
                                [source |-> all_docs[i], result |-> outcomes[i].result]]
        indexed == Set(ss, "vector_store", all_docs)
    IN  IF Len(files) = 0 \/ Len(all_docs) = 0
        THEN [session_state |-> ss, aborted |-> "", results |-> <<>>]
        ELSE IF ~env.index_ok
        THEN [session_state |-> ss, aborted |-> "index", results |-> <<>>]
        ELSE IF raising # {}
        THEN [session_state |-> indexed, aborted |-> "analysis",
              results |-> analysis_results]
        ELSE [session_state |-> Set(indexed, "analysis_results", analysis_results),
              aborted |-> "", results |-> analysis_results]

\* an answer that keeps the last exchange only
AnswerKeepingLast(ss0, new_messages, rag) ==
    LET response == RagInvoke(new_messages[Len(new_messages)].content, rag)
        last == <<new_messages[Len(new_messages)]>>
        answered == Append(last, [role |-> "assistant", content |-> response.content])
    IN  [session_state |-> Set(ss0, "messages", IF response.ok THEN answered ELSE new_messages),
         retriever_calls |-> response.retriever_calls,
         llm_calls |-> response.llm_calls,
         llm_prompt |-> response.prompt,
         aborted |-> IF response.ok THEN "" ELSE "rag"]

\* lines 143-156: the question joins the history and is answered; an
\* exception of the chain stops the run after line 144
Answer(ss0, new_messages, rag) ==
    LET response == RagInvoke(new_messages[Len(new_messages)].content, rag)
        answered == Append(new_messages, [role |-> "assistant", content |-> response.content])
    IN  [session_state |-> Set(ss0, "messages", IF response.ok THEN answered ELSE new_messages),
         retriever_calls |-> response.retriever_calls,
         llm_calls |-> response.llm_calls,
         llm_prompt |-> response.prompt,
         aborted |-> IF response.ok THEN "" ELSE "rag"]

\* a gate that shows its error and answers all the same
RejectAndAnswer(ss0, new_messages, rag) == Answer(ss0, new_messages, rag)

\* line 138: st.error, and nothing else; new_messages is dropped
Reject(ss0, new_messages, rag) ==
    [session_state |-> ss0, retriever_calls |-> 0, llm_calls |-> 0, llm_prompt |-> "",
     aborted |-> ""]

\* lines 122-166: the chat section, reached with a vector_store in the
\* session; button is the button clicked, if any
ChatSection(ss, prompt, button, rag) ==
    LET ss0 == IF "messages" \in DOMAIN ss THEN ss ELSE Set(ss, "messages", <<>>)
        user == [role |-> "user", content |-> prompt]
        new_messages == Append(ss0["messages"], user)
        total_used_tokens == count_tokens(new_messages) + BUFFER_TOKENS
        gate == TokenGate(total_used_tokens)
        sent == IF gate = "blocked" THEN Reject(ss0, new_messages, rag)
                ELSE Answer(ss0, new_messages, rag)
        quiet == [session_state |-> ss0, gate |-> "none", used |-> 0,
                  retriever_calls |-> 0, llm_calls |-> 0, llm_prompt |-> "",
                  aborted |-> "", rerun |-> FALSE]
    IN  IF prompt # NoPrompt
        THEN [quiet EXCEPT !.session_state = sent.session_state,
                           !.gate = gate, !.used = total_used_tokens,
                           !.retriever_calls = sent.retriever_calls,
                           !.llm_calls = sent.llm_calls,
                           !.llm_prompt = sent.llm_prompt,
                           !.aborted = sent.aborted]
        ELSE IF button = "new_chat"
        THEN [quiet EXCEPT !.session_state = Set(ss0, "messages", <<>>), !.rerun = TRUE]
        ELSE quiet

\* one run of the script
RunScript(ss, files, prompt, button, env, rag) ==
    LET up == UploadSection(ss, files, env)
        silent == [session_state |-> up.session_state, prompt |-> prompt, rag |-> rag,
                   gate |-> "none", used |-> 0, retriever_calls |-> 0, llm_calls |-> 0,
                   llm_prompt |-> "",
                   aborted |-> up.aborted, results |-> up.results, rerun |-> FALSE]
    IN  IF up.aborted # "" \/ "vector_store" \notin DOMAIN up.session_state
        THEN silent
        ELSE LET chat == ChatSection(up.session_state, prompt, button, rag) IN
             [silent EXCEPT !.session_state = chat.session_state,
                            !.gate = chat.gate, !.used = chat.used,
                            !.retriever_calls = chat.retriever_calls,
                            !.llm_calls = chat.llm_calls,
                            !.llm_prompt = chat.llm_prompt,
                            !.aborted = chat.aborted, !.rerun = chat.rerun]

\* what a run leaves to look at, beside the session
Observed(r, event) ==
    [event |-> event, prompt |-> r.prompt, rag |-> r.rag,
     gate |-> r.gate, used |-> r.used,
     retriever_calls |-> r.retriever_calls, llm_calls |-> r.llm_calls,
     llm_prompt |-> r.llm_prompt,
     aborted |-> r.aborted, results |-> r.results]

\* no question is answered in a run without one
NoRag == [retrieval |-> "fail", docs |-> <<>>, completion |-> "none", answer |-> ""]

NoRun ==
    [event |-> "start", prompt |-> NoPrompt, rag |-> NoRag,
     gate |-> "none", used |-> 0,
     retriever_calls |-> 0, llm_calls |-> 0, llm_prompt |-> "",
     aborted |-> "", results |-> <<>>]


\* the chat input is on the page when the last run reached line 132, the
\* buttons when it reached line 159
ChatInputShown ==
    "vector_store" \in DOMAIN session_state /\ run.aborted \notin {"index", "analysis"}
ButtonsShown == ChatInputShown /\ run.aborted # "rag"

Messages(ss) == IF "messages" \in DOMAIN ss THEN ss["messages"] ELSE <<>>

\* the user changes the uploader's files (line 47), or moves a slider
\* (the same files)
Upload(files, env) ==
    /\ uploaded_files' = files
    /\ LET r == RunScript(session_state, files, NoPrompt, "none", env, NoRag) IN
       /\ session_state' = r.session_state
       /\ run' = Observed(r, "upload")
    /\ UNCHANGED <<analysis_chain, chunking>>
    /\ UNCHANGED analysisVars

\* the user submits a question (line 132)
ChatSubmit(prompt, env, rag) ==
    /\ ChatInputShown
    /\ Len(Messages(session_state)) + 2 <= MaxMessages
    /\ LET r == RunScript(session_state, uploaded_files, prompt, "none", env, rag) IN
       /\ session_state' = r.session_state
       /\ run' = Observed(r, "chat")
    /\ UNCHANGED uploaded_files
    /\ UNCHANGED <<analysis_chain, chunking>>
    /\ UNCHANGED analysisVars

\* "Start New Chat" (lines 164-166): the history is emptied and st.rerun()
\* runs the script once more
StartNewChat(env, env2) ==
    /\ ButtonsShown
    /\ LET r == RunScript(session_state, uploaded_files, NoPrompt, "new_chat", env, NoRag)
           r2 == RunScript(r.session_state, uploaded_files, NoPrompt, "none", env2, NoRag)
       IN  IF r.rerun
           THEN /\ session_state' = r2.session_state
                /\ run' = Observed(r2, "new_chat")
           ELSE /\ session_state' = r.session_state
                /\ run' = Observed(r, "new_chat")
    /\ UNCHANGED uploaded_files
    /\ UNCHANGED <<analysis_chain, chunking>>
    /\ UNCHANGED analysisVars

\* "Summarize Chat & Continue" (lines 161-162): not implemented
Summarize(env) ==
    /\ ButtonsShown
    /\ LET r == RunScript(session_state, uploaded_files, NoPrompt, "summarize", env, NoRag) IN
       /\ session_state' = r.session_state
       /\ run' = Observed(r, "summarize")
    /\ UNCHANGED uploaded_files
    /\ UNCHANGED <<analysis_chain, chunking>>
    /\ UNCHANGED analysisVars

AppInit ==
    /\ uploaded_files = <<>>
    /\ session_state = EmptyDict
    /\ analysis_chain = FileOutcome
    /\ run = NoRun
    /\ chunking = [docs |-> <<>>, chunk_size |-> 1000, chunk_overlap |-> 200,
                   returned |-> FALSE, chunked_docs |-> <<>>]

\* one chain, called on a completion of the model; no session
InitAnalysis ==
    /\ AnalysisInit
    /\ uploaded_files = <<>>
    /\ session_state = EmptyDict
    /\ analysis_chain = <<>>
    /\ run = NoRun
    /\ chunking = [docs |-> <<>>, chunk_size |-> 1000, chunk_overlap |-> 200,
                   returned |-> FALSE, chunked_docs |-> <<>>]

SpecAnalysis == InitAnalysis /\ [][AnalysisNext]_vars

\* the upload section alone: batches of contracts, one after another
InitUpload == AnalysisInit /\ AppInit
NextUpload == \E files \in Uploads, env \in UploadEnvs : Upload(files, env)
SpecUpload == InitUpload /\ [][NextUpload]_vars

\* one session of the application, on one contract
SessionUploads == {<<>>, <<"nda.pdf">>}

Init == AnalysisInit /\ AppInit

Next ==
    \/ \E files \in SessionUploads, env \in UploadEnvs : Upload(files, env)
    \/ \E prompt \in Prompts, env \in UploadEnvs, rag \in RagOutcomes :
          ChatSubmit(prompt, env, rag)
    \/ \E env \in UploadEnvs, env2 \in UploadEnvs : StartNewChat(env, env2)
    \/ \E env \in UploadEnvs : Summarize(env)

Spec == Init /\ [][Next]_vars

(***************************************************************************)
(* The chunker, src/utils/vector_store.py lines 18-58: _chunk_documents    *)
(* and the RecursiveCharacterTextSplitter it builds at lines 30-35 with    *)
(* length_function=len, the separators of line 34, and the splitter's      *)
(* defaults for the rest (the separator is kept at the start of the piece  *)
(* that follows it, and every chunk is stripped of whitespace).            *)
(***************************************************************************)
MaxTextLen == 5
MaxChunkSize == 4

\* line 34
SEPARATORS == <<"\n\n", "\n", ". ", " ", "">>

RECURSIVE CutBefore(_, _, _)
\* re.split on the separator, each separator joined to the text after it:
\* the text is cut before every occurrence found scanning from the left,
\* the first one at or after skip
CutBefore(text, separator, skip) ==
    LET hits == {p \in skip..(Len(text) - Len(separator)) : MatchAt(text, separator, p)} IN
    IF hits = {} THEN <<text>>
    ELSE LET p == CHOOSE h \in hits : \A k \in hits : h <= k IN
         <<Slice(text, 0, p)>> \o CutBefore(Slice(text, p, Len(text)), separator, Len(separator))

RECURSIVE CutAround(_, _)
\* re.split on the separator, the separators left out
CutAround(text, separator) ==
    IF ~Contains(text, separator) THEN <<text>>
    ELSE LET p == Find(text, separator) IN
         <<Slice(text, 0, p)>> \o CutAround(Slice(text, p + Len(separator), Len(text)), separator)

\* a splitter that does not keep the separators
SplitTextDroppingSeparator(text, separator) ==
    IF separator = "" THEN [i \in 1..Len(text) |-> CharAt(text, i - 1)]
    ELSE SelectSeq(CutAround(text, separator), LAMBDA piece : piece # "")

\* the splitter's pieces of a text for one separator; "" cuts the text
\* into its characters
SplitTextWithRegex(text, separator) ==
    IF separator = "" THEN [i \in 1..Len(text) |-> CharAt(text, i - 1)]
    ELSE SelectSeq(CutBefore(text, separator, 0), LAMBDA piece : piece # "")

\* _join_docs: the pieces joined and stripped; "" stands for None, which
\* is not kept
JoinDocs(current_doc) ==
    LET text == Strip(Join(current_doc, "")) IN
    IF text = "" THEN <<>> ELSE <<text>>

RECURSIVE DropForOverlap(_, _, _, _)
\* the while loop of _merge_splits: pieces leave the window from the left
\* until what stays is at most chunk_overlap long and the next piece fits
DropForOverlap(current_doc, len, chunk_size, chunk_overlap) ==
    LET total == Len(Join(current_doc, "")) IN
    IF total > chunk_overlap \/ (total + len > chunk_size /\ total > 0)
    THEN DropForOverlap(Tail(current_doc), len, chunk_size, chunk_overlap)
    ELSE current_doc

RECURSIVE MergeSplits(_, _, _, _, _)
\* _merge_splits, its for loop from the i-th piece on: the pieces are
\* merged into windows of at most chunk_size; current_doc is the window
\* being filled
MergeSplits(splits, i, current_doc, chunk_size, chunk_overlap) ==
    IF i > Len(splits) THEN JoinDocs(current_doc)
    ELSE LET d == splits[i]
             total == Len(Join(current_doc, ""))
         IN  IF total + Len(d) > chunk_size /\ Len(current_doc) > 0
             THEN JoinDocs(current_doc)
                  \o MergeSplits(splits, i + 1,
                               Append(DropForOverlap(current_doc, Len(d), chunk_size, chunk_overlap), d),
                               chunk_size, chunk_overlap)
             ELSE MergeSplits(splits, i + 1, Append(current_doc, d), chunk_size, chunk_overlap)

RECURSIVE SplitTextRec(_, _, _, _), SplitPieces(_, _, _, _, _, _)
\* the loop of _split_text over the pieces: those shorter than chunk_size
\* are collected and merged, a longer one is split with the separators
\* that remain, or kept as it is when none remains
SplitPieces(splits, j, good_splits, new_separators, chunk_size, chunk_overlap) ==
    IF j > Len(splits)
    THEN MergeSplits(good_splits, 1, <<>>, chunk_size, chunk_overlap)
    ELSE IF Len(splits[j]) < chunk_size
    THEN SplitPieces(splits, j + 1, Append(good_splits, splits[j]), new_separators,
                     chunk_size, chunk_overlap)
    ELSE MergeSplits(good_splits, 1, <<>>, chunk_size, chunk_overlap)
         \o (IF Len(new_separators) = 0 THEN <<splits[j]>>
             ELSE SplitTextRec(splits[j], new_separators, chunk_size, chunk_overlap))
         \o SplitPieces(splits, j + 1, <<>>, new_separators, chunk_size, chunk_overlap)

\* _split_text: the first separator that occurs in the text ("" always
\* does) cuts it
SplitTextRec(text, separators, chunk_size, chunk_overlap) ==
    LET i == CHOOSE k \in DOMAIN separators :
                 /\ separators[k] = "" \/ Contains(text, separators[k])
                 /\ \A h \in 1..(k - 1) : separators[h] # "" /\ ~Contains(text, separators[h])
        separator == separators[i]
        new_separators == IF separator = "" THEN <<>>
                          ELSE SubSeq(separators, i + 1, Len(separators))
    IN  SplitPieces(SplitTextWithRegex(text, separator), 1, <<>>, new_separators,
                    chunk_size, chunk_overlap)

RECURSIVE ChunkDocuments(_, _, _)
\* lines 37-58: every document's chunks, each with the document's
\* metadata, its ordinal, the number of chunks and its length
ChunkDocuments(docs, chunk_size, chunk_overlap) ==
    IF Len(docs) = 0 THEN <<>>
    ELSE LET doc == Head(docs)
             chunks == SplitTextRec(doc.page_content, SEPARATORS, chunk_size, chunk_overlap)
         IN  [i \in 1..Len(chunks) |->
                 [page_content |-> chunks[i], source |-> doc.source,
                  chunk_index |-> i - 1, total_chunks |-> Len(chunks),
                  chunk_size |-> Len(chunks[i])]]
             \o ChunkDocuments(Tail(docs), chunk_size, chunk_overlap)

RECURSIVE TextsUpTo(_)
\* the texts of the documents: every text of at most MaxTextLen characters
\* over a few letters and blanks, and some of sentences and paragraphs
TextsUpTo(n) ==
    IF n = 0 THEN {""}
    ELSE LET shorter == TextsUpTo(n - 1) IN
         shorter \cup {t \o c : t \in shorter, c \in {"a", "b", " ", "\n"}}

\* the batches _chunk_documents is called with
ChunkBatches ==
    {<<[page_content |-> t, source |-> "nda.pdf"]>> :
        t \in TextsUpTo(MaxTextLen)
               \cup { "One. Two. Three.", "First line\nSecond line",
                      "Para one.\n\nPara two.\n", "a. b. c", "ab\n\n\ncd",
                      "  lead and trail  " }}
    \cup {<<[page_content |-> "ab cd", source |-> "nda.pdf"],
            [page_content |-> "", source |-> "scan.pdf"],
            [page_content |-> "x y z", source |-> "msa.docx"]>>}

\* valid settings: 0 < chunk_overlap < chunk_size
ChunkConfigs ==
    {c \in [chunk_size : 2..MaxChunkSize, chunk_overlap : 1..MaxChunkSize] :
        c.chunk_overlap < c.chunk_size}
    \cup {[chunk_size |-> 10, chunk_overlap |-> 3]}

\* _chunk_documents is called with a batch and a setting
InitChunk ==
    /\ AnalysisInit
    /\ uploaded_files = <<>>
    /\ session_state = EmptyDict
    /\ analysis_chain = <<>>
    /\ run = NoRun
    /\ chunking \in {[docs |-> docs, chunk_size |-> c.chunk_size,
                       chunk_overlap |-> c.chunk_overlap,
                       returned |-> FALSE, chunked_docs |-> <<>>] :
                          docs \in ChunkBatches, c \in ChunkConfigs}

\* and returns the chunks (line 58)
ChunkDocumentsCall ==
    /\ ~chunking.returned
    /\ chunking' = [chunking EXCEPT
                       !.returned = TRUE,
                       !.chunked_docs = ChunkDocuments(chunking.docs, chunking.chunk_size,
                                                       chunking.chunk_overlap)]
    /\ UNCHANGED <<uploaded_files, session_state, analysis_chain, run>>
    /\ UNCHANGED analysisVars

SpecChunk == InitChunk /\ [][ChunkDocumentsCall]_vars

(***************************************************************************)
(* Properties of analyze_contract, checked under SpecAnalysis.             *)
(***************************************************************************)
\* the Clause-Weight Table of spec section 4.4 in its priority order, the
\* weights in tenths
WeightTable ==
    << <<"liability", 30>>, <<"indemnity", 30>>, <<"intellectual property", 30>>,
       <<"termination", 25>>, <<"fees and payment terms", 25>>,
       <<"scope of services", 20>>, <<"confidentiality", 15>>,
       <<"amendments", 10>>, <<"force majeure", 10>> >>

\* the weight the table gives a clause name, in tenths: that of the first
\* key, in table order, which is a substring of the name whatever the
\* case, and 1.5 when there is none
TableWeight(name) ==
    LET hits == {i \in DOMAIN WeightTable : Contains(Lower(name), WeightTable[i][1])} IN
    IF hits = {} THEN 15
    ELSE WeightTable[CHOOSE i \in hits : \A j \in hits : i <= j][2]

\* the clause_name of a parsed clause, "" when it has none
NameOf(clause) ==
    IF "clause_name" \in DOMAIN clause.v THEN clause.v["clause_name"].v ELSE ""

\* a parsed clause whose risk_score is a JSON number above 0
HasPositiveScore(clause) ==
    /\ clause.t = "obj"
    /\ "risk_score" \in DOMAIN clause.v
    /\ clause.v["risk_score"].t = "num"
    /\ clause.v["risk_score"].v[1] > 0

WeightOf(clause) == FloatOf(TableWeight(NameOf(clause)), 1)
ScoreOf(clause) == FloatOf(clause.v["risk_score"].v[1], clause.v["risk_score"].v[2])

RECURSIVE Numerator(_, _), Denominator(_, _)
\* sum(score * weight) and sum(weight) over the first n of the clauses
Numerator(clauses, n) ==
    IF n = 0 THEN FloatZero
    ELSE FloatAdd(Numerator(clauses, n - 1), FloatMul(ScoreOf(clauses[n]), WeightOf(clauses[n])))
Denominator(clauses, n) ==
    IF n = 0 THEN FloatZero
    ELSE FloatAdd(Denominator(clauses, n - 1), WeightOf(clauses[n]))

\* round(sum(score * weight) / sum(weight), 1) over the clauses with a
\* positive numeric score, null when there is none
WeightedMean(clauses) ==
    LET scored == SelectSeq(clauses, HasPositiveScore) IN
    IF Len(scored) = 0 THEN JNull
    ELSE JNum(RoundTenths(FloatDiv(Numerator(scored, Len(scored)),
                                   Denominator(scored, Len(scored)))), 1)

Scored == pc = "done" /\ outcome.path = "scored"

\* C3: for every response that parsed and was scored, the
\* overall_risk_score of the returned result is the weighted mean, rounded
\* to one decimal, of exactly the clauses whose risk_score is a number
\* above 0, and null exactly when there is no such clause, whatever the
\* model wrote in that field.
C3_OverallRiskScore ==
    Scored => outcome.result.v["overall_risk_score"] = WeightedMean(items)

\* C4: the weight the loop has found for the clause it has just passed is
\* that of the first table key, in the table's order, which is a substring
\* of the clause's name whatever the case, and the default 1.5 if and only
\* if no key is (a clause without a name included).
C4_WeightByFirstMatch ==
    (pc = "loop" /\ clause_i > 1) =>
        totals.weight = <<TableWeight(NameOf(items[clause_i - 1])), 1>>

\* C4 witness: a name holding two keys, "termination" and the earlier
\* "liability", has been given the weight of "liability"
C4_TwoKeysWitness ==
    /\ pc = "loop" /\ clause_i = 2
    /\ NameOf(items[1]) = "Termination and Liability"
    /\ totals.weight = <<30, 1>>
    /\ Contains(Lower(NameOf(items[1])), "termination")

Orders(n) ==
    {p \in [1..n -> 1..n] : \A i, j \in 1..n : i # j => p[i] # p[j]}

\* the parsed response with its clauses in the order p
Reordered(response, p) ==
    JObj(("clauses" :> JArr([i \in DOMAIN p |-> items[p[i]]])) @@ response.v)

\* C5: the overall_risk_score of a scored response is that of the same
\* response with its clauses array in any other order, and every call of
\* the chain on one completion text returns what the first call returned.
C5_OrderAndCallInvariance ==
    /\ (Scored /\ Get(result, "clauses", JNull).t = "arr") =>
          \A p \in Orders(Len(items)) :
              ScoreResult(Reordered(result, p)).result.v["overall_risk_score"]
                  = outcome.result.v["overall_risk_score"]
    /\ \A i, j \in DOMAIN calls : calls[i] = calls[j]

\* a canned result: zero clauses, a null score, one flag, and the words
\* the flag and the summary hold
Canned(value, flag, summary) ==
    /\ value.t = "obj"
    /\ value.v["clauses"] = JArr(<<>>)
    /\ value.v["overall_risk_score"] = JNull
    /\ value.v["flags"].t = "arr" /\ Len(value.v["flags"].v) = 1
    /\ Contains(Lower(value.v["flags"].v[1].v), flag)
    /\ Contains(Lower(value.v["summary"].v), summary)

\* C6: when the completion's text, stripped and without its fences, is
\* empty, the call returns the canned empty-response result (zero clauses,
\* one flag naming the empty response, a null score, a summary saying the
\* contract could not be analyzed), without raising and without having
\* tried the truncation repair or the parse.
C6_EmptyResponse ==
    (pc = "done" /\ llm.ok /\ Sanitize(llm.content) = "") =>
        /\ outcome.kind = "return"
        /\ Canned(outcome.result, "empty response", "unable to analyze")
        /\ steps \cap {"fix", "parse", "score"} = {}

\* C6 witness: a fence enclosing nothing has been answered with the canned
\* result
C6_EmptyFenceWitness ==
    /\ pc = "done"
    /\ llm.ok /\ llm.content = "~~~json\n~~~"
    /\ outcome.path = "empty"

\* C7: when the text handed to the parser (sanitized, repaired or not, and
\* not empty) is no JSON, the call does not raise: it returns the canned
\* parse-failure result (zero clauses, one flag naming the parse error, a
\* null score, a summary saying the response could not be parsed).
C7_ParseFailure ==
    (pc = "done" /\ llm.ok /\ response_text # "" /\ ~JsonLoads(response_text).ok) =>
        /\ outcome.kind = "return"
        /\ Canned(outcome.result, "parse error", "could not parse")

\* C7 witness: a response cut off inside its second clause, which the
\* repair left as it was, has been answered with the parse-failure result
C7_TruncatedWitness ==
    /\ pc = "done"
    /\ gen \in TruncatedDocs
    /\ Contains(llm.content, "\"Liability Cap\"") /\ ~Contains(llm.content, "flags")
    /\ response_text = llm.content
    /\ outcome.path = "parse_error"

\* where the i-th clause object of a rendered answer ends
ClauseEnd(clauses, i) ==
    Len("{\n  \"summary\": \"" \o SUMMARY \o "\",\n  \"clauses\": [\n")
    + Len(Join([j \in 1..i |-> RenderClause(clauses[j])], ",\n"))

\* the clause objects of an answer that were received whole
Received(g) == {i \in DOMAIN g.clauses : ClauseEnd(g.clauses, i) <= g.cut}

\* the clauses of the whole answer, parsed
ParsedClauses(g) == JsonLoads(RenderDoc(g.clauses, g.overall)).v.v["clauses"].v

\* C8: an answer in the prompted layout that was cut off after at least one
\* whole clause object, and does not end with "}", yields a scored result
\* with exactly the clauses received whole, the summary, no flags, and the
\* score of those clauses; and a text that ends with "}" leaves the repair
\* step as it entered it.
C8_TruncationRepair ==
    /\ ( /\ pc = "done"
         /\ gen.kind = "doc" /\ gen.wrap = "none"
         /\ gen.cut < Len(RenderDoc(gen.clauses, gen.overall))
         /\ Received(gen) # {}
         /\ ~EndsWith(Sanitize(llm.content), "}") ) =>
           /\ outcome.path = "scored"
           /\ outcome.result.v["clauses"]
                 = JArr(SubSeq(ParsedClauses(gen), 1, Cardinality(Received(gen))))
           /\ outcome.result.v["summary"] = JStr(SUMMARY)
           /\ outcome.result.v["flags"] = JArr(<<>>)
           /\ outcome.result.v["overall_risk_score"]
                 = WeightedMean(SubSeq(ParsedClauses(gen), 1, Cardinality(Received(gen))))
    /\ (pc = "parse" /\ EndsWith(Sanitize(llm.content), "}")) =>
           response_text = Sanitize(llm.content)

\* C10: after the sanitization step, the text of a completion that is a
\* JSON object with no fence around it is the completion's text (stripped),
\* and is left as it is by a second sanitization; the text of a completion
\* that is an answer inside a fence, with the tag json, another tag or no
\* tag, is the answer.
C10_Sanitization ==
    (pc = "empty_check") =>
        /\ (JsonLoads(Strip(llm.content)).ok /\ JsonLoads(Strip(llm.content)).v.t = "obj") =>
              /\ response_text = Strip(llm.content)
              /\ Sanitize(response_text) = response_text
        /\ (gen.kind = "doc" /\ gen.wrap \in {"json", "plain", "upper", "prose"}) =>
              response_text = Strip(SubSeq(RenderDoc(gen.clauses, gen.overall), 1, gen.cut))

(***************************************************************************)
(* Properties of the session: the token gate and the chat under Spec, the  *)
(* upload batch under SpecUpload.                                          *)
(***************************************************************************)
RECURSIVE TokenSum(_, _)
\* the tokens of the first n messages of a history
TokenSum(messages, n) ==
    IF n = 0 THEN 0 ELSE TokenSum(messages, n - 1) + EncodedLen(messages[n].content)

\* the tokens of a history and a pending question, plus the buffer
Used(history, prompt) == TokenSum(history, Len(history)) + EncodedLen(prompt) + 500

\* a step in which a question was submitted and reached the gate
GatedSubmission == run'.event = "chat" /\ run'.gate # "none"

\* C1 as stated: every submission that reaches the gate is classified by
\* used = tokens of the history and the question + 500: ok below 5734, a
\* warning from 5734 up to 8192, blocked at 8192 and above.
C1_ZonesFromThresholds ==
    [][GatedSubmission =>
         LET used == Used(Messages(session_state), run'.prompt) IN
         /\ run'.used = used
         /\ run'.gate = (IF used >= 8192 THEN "blocked"
                        ELSE IF used >= 5734 THEN "warn" ELSE "ok")]_vars

\* C1, amended: every submission that reaches the gate is classified by
\* used = tokens of the history and the question + 500: ok up to and
\* including 5734, a warning above 5734 up to and including 8192, blocked
\* above 8192.
C1_ZonesAboveThresholds ==
    [][GatedSubmission =>
         LET used == Used(Messages(session_state), run'.prompt) IN
         /\ run'.used = used
         /\ run'.gate = (IF used > 8192 THEN "blocked"
                        ELSE IF used > 5734 THEN "warn" ELSE "ok")]_vars

\* C1 witness: a question that brought used to 8192 exactly was let
\* through with a warning, and answered
C1_AtMaxWitness ==
    /\ run.event = "chat"
    /\ run.used = 8192
    /\ run.gate = "warn"
    /\ run.llm_calls = 1

\* C2: a submission the gate blocks leaves the history as it was (neither
\* the question nor an answer is appended) and calls neither the retriever
\* nor the completion; the run ends with the signal and no exception.
C2_BlockedLeavesHistory ==
    [][(run'.event = "chat" /\ run'.gate = "blocked") =>
         /\ Messages(session_state') = Messages(session_state)
         /\ run'.retriever_calls = 0
         /\ run'.llm_calls = 0
         /\ run'.aborted = ""]_vars

\* C2 witness: with a question and its answer in the history, a second
\* question has been blocked
C2_BlockedWitness ==
    /\ run.event = "chat"
    /\ run.gate = "blocked"
    /\ run.prompt = "longest question"
    /\ Len(Messages(session_state)) = 2

\* the results the session holds for display (app.py lines 99-100)
SessionResults ==
    IF "analysis_results" \in DOMAIN session_state
    THEN {session_state["analysis_results"][i] : i \in DOMAIN session_state["analysis_results"]}
    ELSE {}

\* C9: a completion failure and a response of the wrong shape are raised
\* by analyze_contract; after an upload run in which one document's
\* analysis raised, the session holds the batch's index and the results
\* obtained for the documents analysed before it; and a batch none of
\* whose analyses raised, degraded ones included, has a result stored for
\* each of its documents.
C9_FatalErrorAbortsOneDocument ==
    run.event = "upload" =>
        /\ analysis_chain[FAILURE].kind = "raise"
        /\ analysis_chain["lease.pdf"].kind = "raise"
        /\ run.aborted = "analysis" =>
              /\ "vector_store" \in DOMAIN session_state
              /\ \A i \in DOMAIN run.results : run.results[i] \in SessionResults
        /\ (run.aborted = "" /\ Len(SelectSeq(uploaded_files, HasText)) > 0) =>
              /\ Len(run.results) = Len(SelectSeq(uploaded_files, HasText))
              /\ \A i \in DOMAIN run.results : run.results[i] \in SessionResults

(***************************************************************************)
(* Properties of the chunker, checked under SpecChunk.                     *)
(***************************************************************************)
\* text[a:b] holds whitespace only
Blank(text, a, b) == \A i \in a..(b - 1) : IsSpace(text, i)

RECURSIVE Lays(_, _, _, _, _, _)
\* the chunks from the i-th on can be laid on the text in order, each where
\* its characters are, the i-th starting at or after start and no later
\* than end, the place up to which the text is covered so far, and the
\* last one ending where the text ends; with blanks, a run of whitespace
\* may lie between end and the chunk, and after the last chunk
Lays(text, chunks, i, start, end, blanks) ==
    IF i > Len(chunks)
    THEN end = Len(text) \/ (blanks /\ Blank(text, end, Len(text)))
    ELSE \E s \in start..(Len(text) - Len(chunks[i])) :
            /\ MatchAt(text, chunks[i], s)
            /\ s <= end \/ (blanks /\ Blank(text, end, s))
            /\ Lays(text, chunks, i + 1, s, Max(end, s + Len(chunks[i])), blanks)

\* the chunks made of the k-th document of the last call
ChunksOfDoc(k) ==
    SelectSeq(chunking.chunked_docs,
              LAMBDA chunk : chunk.source = chunking.docs[k].source)

\* the chunks of a document carry the ordinals 0..total_chunks-1 in order
Ordinals(chunks) ==
    \A i \in DOMAIN chunks :
        chunks[i].chunk_index = i - 1 /\ chunks[i].total_chunks = Len(chunks)

\* C11 as stated: the chunks of every document, in ordinal order, lie on
\* its text one after the other with no character of the text between or
\* around them left out, and an empty text has no chunks.
C11_ChunkCoverage ==
    chunking.returned => \A k \in DOMAIN chunking.docs :
        LET text == chunking.docs[k].page_content
            chunks == ChunksOfDoc(k)
        IN  /\ Ordinals(chunks)
            /\ Lays(text, [i \in DOMAIN chunks |-> chunks[i].page_content], 1, 0, 0, FALSE)
            /\ text = "" => Len(chunks) = 0

\* C11, amended: the chunks of every document, in ordinal order, lie on
\* its text one after the other, and the only characters of the text left
\* out between or around them are whitespace; an empty text has no chunks.
C11_ChunkCoverageButWhitespace ==
    chunking.returned => \A k \in DOMAIN chunking.docs :
        LET text == chunking.docs[k].page_content
            chunks == ChunksOfDoc(k)
        IN  /\ Ordinals(chunks)
            /\ Lays(text, [i \in DOMAIN chunks |-> chunks[i].page_content], 1, 0, 0, TRUE)
            /\ text = "" => Len(chunks) = 0

\* C11 witness: "ab ba" has been cut in two chunks that overlap nowhere and
\* leave its blank out
C11_BlankDroppedWitness ==
    /\ chunking.returned
    /\ Len(chunking.docs) = 1
    /\ chunking.docs[1].page_content = "ab ba"
    /\ chunking.chunk_size = 3 /\ chunking.chunk_overlap = 1
    /\ Len(chunking.chunked_docs) = 2
    /\ chunking.chunked_docs[1].page_content = "ab"
    /\ chunking.chunked_docs[2].page_content = "ba"

(***************************************************************************)
(* Properties of the conversation history, checked under Spec.             *)
(***************************************************************************)
\* the history old is the beginning of the history new
IsPrefix(old, new) == Len(old) <= Len(new) /\ SubSeq(new, 1, Len(old)) = old

\* C12: in every step of a session the history keeps its messages as they
\* were and in their order, with new ones only at its end, unless the step
\* is the reset, which leaves it empty; every message has the role user or
\* assistant; and a question that was answered has added the user's
\* message and then the assistant's reply, and nothing else.
C12_HistoryAppendOnly ==
    [][LET old == Messages(session_state)
           new == Messages(session_state')
       IN  /\ \A i \in DOMAIN new : new[i].role \in {"user", "assistant"}
           /\ \/ IsPrefix(old, new)
              \/ run'.event = "new_chat" /\ new = <<>>
           /\ (run'.event = "chat" /\ run'.llm_calls = 1 /\ run'.aborted = "") =>
                  /\ Len(new) = Len(old) + 2
                  /\ new[Len(old) + 1] = [role |-> "user", content |-> run'.prompt]
                  /\ new[Len(old) + 2].role = "assistant"]_vars

\* C12 witness: a second question has been answered, after a first one and
\* its answer
C12_TwoExchangesWitness ==
    /\ run.event = "chat" /\ run.llm_calls = 1 /\ run.aborted = ""
    /\ Len(Messages(session_state)) = 4
    /\ Messages(session_state)[3] = [role |-> "user", content |-> run.prompt]
    /\ Messages(session_state)[4].role = "assistant"

(***************************************************************************)
(* Properties of the answerer, checked under Spec: run.rag is what the     *)
(* retriever and the completion did when they were asked.                  *)
(***************************************************************************)
\* the last run passed its question to ContractRAGChain.invoke
Asked == run.event = "chat" /\ run.gate \in {"ok", "warn"}

\* the history ends with the question, unanswered
Unanswered ==
    LET messages == Messages(session_state) IN
    /\ Len(messages) > 0
    /\ messages[Len(messages)] = [role |-> "user", content |-> run.prompt]

\* the history ends with the question and the answer text
AnsweredWith(text) ==
    LET messages == Messages(session_state) IN
    /\ Len(messages) > 1
    /\ messages[Len(messages) - 1] = [role |-> "user", content |-> run.prompt]
    /\ messages[Len(messages)] = [role |-> "assistant", content |-> text]

\* what the prompt of rag.py line 32 is for chunks and a question
RagPrompt(docs, question) ==
    "Based on this contract:\n"
    \o (IF Len(docs) = 0 THEN ""
        ELSE IF Len(docs) = 1 THEN docs[1] ELSE docs[1] \o "\n" \o docs[2])
    \o "\n\nQuestion: " \o question \o "\n\nAnswer:"

\* C13 as stated: for every question passed to the answerer the retriever
\* is called once and the completion exactly once; when the completion
\* fails the failure is raised and no answer is returned, and otherwise
\* the completion's text is returned.
C13_OneRetrievalOneCompletion ==
    Asked =>
       /\ run.retriever_calls = 1
       /\ run.llm_calls = 1
       /\ IF run.rag.completion = "fail"
          THEN run.aborted = "rag" /\ Unanswered
          ELSE run.aborted = "" /\ AnsweredWith(run.rag.answer)

\* C13, amended: for every question passed to the answerer the retriever
\* is called once; when it returns, with chunks or with none, the
\* completion is called exactly once, on the prompt made of the chunks and
\* the question: if it fails the failure is raised, with no second call
\* and no answer, and otherwise its text is the answer; when the retriever
\* fails, that failure is raised, the completion is not called and there
\* is no answer.
C13_OneCompletionPerRetrieval ==
    Asked =>
       /\ run.retriever_calls = 1
       /\ IF run.rag.retrieval = "fail"
          THEN run.llm_calls = 0 /\ run.aborted = "rag" /\ Unanswered
          ELSE /\ run.llm_calls = 1
               /\ run.llm_prompt = RagPrompt(run.rag.docs, run.prompt)
               /\ IF run.rag.completion = "fail"
                  THEN run.aborted = "rag" /\ Unanswered
                  ELSE run.aborted = "" /\ AnsweredWith(run.rag.answer)

\* C13 witness: a question for which nothing was retrieved has been put to
\* the completion, with an empty context, and answered
C13_EmptyContextWitness ==
    /\ Asked
    /\ run.rag.retrieval = "ok" /\ run.rag.docs = <<>>
    /\ run.llm_calls = 1
    /\ run.llm_prompt = "Based on this contract:\n\n\nQuestion: short question\n\nAnswer:"
    /\ AnsweredWith("Yes.")

====
